---- MODULE Spec2Model ----
(***************************************************************************)
(* Model of the commit scheduler (GeneratorInterface.generate_contributions *)
(* and ReactProjectScanner.prepare_commits), of the date helpers            *)
(* (DateHandler.get_date_range, validate_date_range, generate_date_windows), *)
(* of the contribution aggregator (GitHubScraper / ContributionAnalyzer,    *)
(* with get_top_contributors), of the commit statistics                     *)
(* (AnalysisService.generate_commit_statistics), of the branch operations   *)
(* (GitRepository.create_branch, delete_branch), of the commit operations   *)
(* (CommitRepository.create_commit, amend_last_commit) and of the Settings  *)
(* singleton.                                                               *)
(*                                                                         *)
(* Calendar: day 0 is Monday 2024-01-01.  The generator works on whole     *)
(* days (a date is a day number); the scanner and the commit statistics    *)
(* work on instants counted in minutes since day 0 00:00; validation and   *)
(* windows work on instants counted in seconds.  A frequency f stands for  *)
(* f / FreqScale and a draw r of random.random() for r / FreqScale, r in   *)
(* 0..FreqScale-1.                                                         *)
(***************************************************************************)
EXTENDS Integers, Sequences, FiniteSets, TLC

\* ---------------------------------------------------------------- bounds
MaxDays == 7
MaxRerunDays == 3
FreqScale == 4
MaxSpan == 1
MaxCommitsPerDay == 2
MaxFiles == 2
MaxCommits == 3
MaxLimit == 2
MaxRetries == 2
MaxTopN == 2
MaxLookDays == 2
MaxSpanDays == 3
MaxWindowSize == 2
MaxStatDays == 2
MaxStatCommits == 3
MaxHistory == 2
MaxBranchCalls == 2
MaxCommitCalls == 2
MaxSettingsCalls == 3

MinutesPerDay == 24 * 60
SecondsPerDay == MinutesPerDay * 60
DaysPerWeek == 6 + 1
ExampleDays == 2 * DaysPerWeek

\* ---------------------------------------------------------------- state
VARIABLES
    mode,               \* which entry point this run exercises
    pc,                 \* position inside that entry point
    weekend_policy,     \* settings.date.weekend_policy
    \* generate_contributions
    now, days, frequency, gen_start_date, day, contributions, commit_log_file,
    run_no, first_run,
    \* ReactProjectScanner
    start_date, end_date, commits_per_day, files, type_groups, current_date,
    daily_left, commits, days_iterated,
    \* DateHandler.get_date_range
    date_list,
    \* GitHubScraper / ContributionAnalyzer
    max_concurrent_requests,    \* settings.scraper.max_concurrent_requests
    remote_commits,             \* authors of the commits the remote lists
    max_retries,                \* settings.scraper.max_retries
    date_args,                  \* type of the start_date / end_date arguments
    top_n,                      \* argument of get_top_contributors
    calls,                      \* entry points the caller still awaits, current first
    session, list_outcome, task, commit_data, author_contributions,
    top_contributors,           \* value returned by get_top_contributors
    attempts,                   \* requests sent for each listed commit
    completion_order,           \* indices of the detail fetches, as they finished
    list_requests, detail_requests,
    \* DateHandler.validate_date_range / generate_date_windows
    clock,                      \* datetime.now(self.timezone)
    max_days_lookback, max_days_ahead,
    validated,                  \* pair returned by validate_date_range
    window_size, current_start, windows,
    \* AnalysisService.generate_commit_statistics
    branch_commits,             \* dates of the commits list_commits returns
    per_day,                    \* commits_per_day, in insertion order
    statistics,                 \* value returned by generate_commit_statistics
    \* GitRepository.create_branch / delete_branch
    heads,                      \* repo.heads: branch name -> commit
    active_branch,              \* the branch HEAD points to
    branch_calls,               \* the calls made so far, with their results
    heads_log,                  \* heads as it was before each call
    \* CommitRepository.create_commit / amend_last_commit
    index,                      \* staged paths
    worktree,                   \* paths that differ from the last commit
    commit_log,                 \* the commits of the current branch, oldest first
    commit_calls,               \* the calls made so far, with their results
    repo_before,                \* the repository as it was before the last call
    \* Settings
    app_env, config_files,      \* APP_ENV and the config_<env>.yaml files
    instance,                   \* Settings._instance
    initialized,                \* _initialized as the instance sees it
    settings_attrs,             \* attributes set on the instance
    load_runs,                  \* times the loading in __init__ started
    settings_calls              \* outcome of each Settings() call

genVars == <<now, days, frequency, gen_start_date, day, contributions,
             commit_log_file, run_no, first_run>>
prepVars == <<commits_per_day, files, type_groups, current_date, daily_left,
              commits, days_iterated>>
windowVars == <<start_date, end_date>>
rangeVars == <<date_list>>
aggInputs == <<max_concurrent_requests, max_retries, remote_commits, date_args,
               top_n>>
aggVars == <<aggInputs, calls, session, list_outcome, task, commit_data,
             author_contributions, top_contributors, attempts,
             completion_order, list_requests, detail_requests>>
dateVars == <<clock, max_days_lookback, max_days_ahead, validated, window_size,
              current_start, windows>>
statVars == <<branch_commits, per_day, statistics>>
branchVars == <<heads, active_branch, branch_calls, heads_log>>
commitVars == <<index, worktree, commit_log, commit_calls, repo_before>>
settingsVars == <<app_env, config_files, instance, initialized, settings_attrs,
                  load_runs, settings_calls>>
vars == <<mode, pc, weekend_policy, genVars, prepVars, windowVars, rangeVars,
          aggVars, dateVars, statVars, branchVars, commitVars, settingsVars>>

\* ------------------------------------------------------------- calendar
Weekday(d) == d % DaysPerWeek

IsWeekend(d) == Weekday(d) \in {5, 6}

DayOf(t) == t \div MinutesPerDay

TimedeltaDays(a, b) == (a - b) \div MinutesPerDay

ReplaceAddsTime(t, hour, minute) == t + hour * 60 + minute

\* datetime.replace(hour=hour, minute=minute)
Replace(t, hour, minute) == DayOf(t) * MinutesPerDay + hour * 60 + minute

WeekendPolicies == {"include", "exclude"}

\* ------------------------------------------- generate_contributions
Frequencies == (0 - 1)..(FreqScale + 1)
Draws == 0..(FreqScale - 1)

FrequencyValid(f) == 0 <= f /\ f <= FreqScale

DrawCommitsAbove(r, f) == r > f

\* random.random() <= frequency
DrawCommits(r, f) == r <= f

GenerateCommit(d) == [date |-> d]

NoLog == <<"absent">>

GenIdle ==
    /\ now = 0 /\ days = 0 /\ frequency = 0 /\ gen_start_date = 0 /\ day = 0
    /\ contributions = <<>> /\ commit_log_file = NoLog
    /\ run_no = 0 /\ first_run = <<>>

PrepIdle ==
    /\ commits_per_day = 0 /\ files = <<>> /\ type_groups = <<>>
    /\ current_date = 0 /\ daily_left = 0 /\ commits = <<>> /\ days_iterated = 0

WindowIdle == start_date = 0 /\ end_date = 0

RangeIdle == date_list = <<>>

AggIdle ==
    /\ max_concurrent_requests = 0 /\ remote_commits = <<>>
    /\ max_retries = 0 /\ date_args = "none" /\ top_n = 0 /\ calls = <<>>
    /\ session = "none" /\ list_outcome = "none" /\ task = <<>>
    /\ commit_data = <<>> /\ author_contributions = <<>>
    /\ top_contributors = <<>> /\ attempts = <<>> /\ completion_order = <<>>
    /\ list_requests = 0 /\ detail_requests = 0

DateIdle ==
    /\ clock = 0 /\ max_days_lookback = 0 /\ max_days_ahead = 0
    /\ validated = <<>> /\ window_size = 0 /\ current_start = 0
    /\ windows = <<>>

StatIdle == branch_commits = <<>> /\ per_day = <<>> /\ statistics = <<>>

BranchIdle ==
    /\ heads = <<>> /\ active_branch = "" /\ branch_calls = <<>>
    /\ heads_log = <<>>

CommitIdle ==
    /\ index = {} /\ worktree = {} /\ commit_log = <<>> /\ commit_calls = <<>>
    /\ repo_before = <<>>

SettingsIdle ==
    /\ app_env = "" /\ config_files = <<>> /\ instance = "None"
    /\ initialized = FALSE /\ settings_attrs = {} /\ load_runs = 0
    /\ settings_calls = <<>>

\* Every window of up to maxDays days with every frequency, and the two-week
\* window with frequency 1.
GenArgs(maxDays) ==
    {[days |-> d, frequency |-> f] : d \in 0..maxDays, f \in Frequencies}
    \cup {[days |-> ExampleDays, frequency |-> FreqScale]}

InitGenArgs(maxDays) ==
    /\ mode = "generate"
    /\ pc = "call"
    /\ weekend_policy \in WeekendPolicies
    /\ \E a \in GenArgs(maxDays) : days = a.days /\ frequency = a.frequency
    /\ now \in {days + d : d \in 0..(DaysPerWeek - 1)}
    /\ gen_start_date = 0 /\ day = 0 /\ contributions = <<>>
    /\ commit_log_file = NoLog
    /\ run_no = 1 /\ first_run = <<>>
    /\ PrepIdle /\ WindowIdle /\ RangeIdle /\ AggIdle /\ DateIdle /\ StatIdle
    /\ BranchIdle /\ CommitIdle /\ SettingsIdle

InitGen == InitGenArgs(MaxDays)

GenValidate ==
    /\ mode = "generate" /\ pc = "call"
    /\ IF FrequencyValid(frequency)
       THEN /\ gen_start_date' = now - days
            /\ contributions' = <<>>
            /\ day' = 0
            /\ pc' = "loop"
       ELSE /\ pc' = "raised"
            /\ UNCHANGED <<gen_start_date, contributions, day>>
    /\ UNCHANGED <<mode, weekend_policy, now, days, frequency, commit_log_file,
                   run_no, first_run, prepVars, windowVars, rangeVars, aggVars, dateVars, statVars, branchVars,
                   commitVars, settingsVars>>

GenDay ==
    /\ mode = "generate" /\ pc = "loop"
    /\ day < days
    /\ \E r \in Draws :
          contributions' =
              IF DrawCommits(r, frequency)
              THEN Append(contributions, GenerateCommit(gen_start_date + day))
              ELSE contributions
    /\ day' = day + 1
    /\ UNCHANGED <<mode, pc, weekend_policy, now, days, frequency,
                   gen_start_date, commit_log_file, run_no, first_run,
                   prepVars, windowVars, rangeVars, aggVars, dateVars, statVars, branchVars,
                   commitVars, settingsVars>>

GenSave ==
    /\ mode = "generate" /\ pc = "loop"
    /\ day >= days
    /\ commit_log_file' = contributions
    /\ pc' = "returned"
    /\ UNCHANGED <<mode, weekend_policy, now, days, frequency, gen_start_date,
                   day, contributions, run_no, first_run,
                   prepVars, windowVars, rangeVars, aggVars, dateVars, statVars, branchVars,
                   commitVars, settingsVars>>

\* A second call on the same generator with the same arguments.
GenCallAgain ==
    /\ mode = "generate" /\ pc = "returned"
    /\ run_no = 1
    /\ first_run' = contributions
    /\ run_no' = 2
    /\ pc' = "call"
    /\ UNCHANGED <<mode, weekend_policy, now, days, frequency, gen_start_date,
                   day, contributions, commit_log_file,
                   prepVars, windowVars, rangeVars, aggVars, dateVars, statVars, branchVars,
                   commitVars, settingsVars>>

\* ------------------------------------------------ ReactProjectScanner
FileKeys == {<<"Component", "UI">>, <<"Hook", "Logic">>}
TimesOfDay == {0, 12 * 60}
StartDays == {0, 5}
Hours == {9, 18}
Minutes == {0, 59}
CommitsPerDayArgs == (0 - 1)..MaxCommitsPerDay
MaxFilesPerCommit == 5
ExampleFiles == [i \in 1..(MaxFilesPerCommit + 1) |-> <<"Component", "UI">>]

SeqsUpTo(S, n) == UNION {[1..k -> S] : k \in 0..n}

Min(a, b) == IF a <= b THEN a ELSE b

Take(s, n) == SubSeq(s, 1, n)

DropNothing(s, n) == s

Drop(s, n) == SubSeq(s, n + 1, Len(s))

GroupOf(fs, key) == SelectSeq([i \in 1..Len(fs) |-> i], LAMBDA i : fs[i] = key)

GroupFiles(fs) == [key \in FileKeys |-> GroupOf(fs, key)]

AvailableGroups(groups) == {key \in DOMAIN groups : groups[key] # <<>>}

DailyCommitsOneMore(per_day_limit) == 1..(per_day_limit + 1)

\* random.randint(1, self.commits_per_day)
DailyCommits(per_day_limit) == 1..per_day_limit

FilesCountsUncapped(group_files) == 1..Len(group_files)

\* random.randint(1, min(5, len(group_files)))
FilesCounts(group_files) == 1..Min(MaxFilesPerCommit, Len(group_files))

Windows ==
    {[start |-> sd * MinutesPerDay + st, end |-> (sd + n) * MinutesPerDay + et] :
        sd \in StartDays, st \in TimesOfDay, n \in 0..MaxSpan, et \in TimesOfDay}

InitPrep ==
    /\ mode = "prepare"
    /\ pc = "call"
    /\ weekend_policy \in WeekendPolicies
    /\ \/ /\ \E w \in Windows : start_date = w.start /\ end_date = w.end
          /\ commits_per_day \in CommitsPerDayArgs
          /\ files \in SeqsUpTo(FileKeys, MaxFiles)
       \/ /\ start_date = 0 /\ end_date = 0
          /\ commits_per_day = MaxCommitsPerDay
          /\ files = ExampleFiles
    /\ type_groups = <<>> /\ current_date = 0 /\ daily_left = 0
    /\ commits = <<>> /\ days_iterated = 0
    /\ GenIdle /\ RangeIdle /\ AggIdle /\ DateIdle /\ StatIdle
    /\ BranchIdle /\ CommitIdle /\ SettingsIdle

PrepEnter ==
    /\ mode = "prepare" /\ pc = "call"
    /\ IF files = <<>>
       THEN /\ pc' = "raised"
            /\ UNCHANGED <<commits, type_groups, current_date>>
       ELSE /\ commits' = <<>>
            /\ type_groups' = GroupFiles(files)
            /\ current_date' = start_date
            /\ pc' = "while"
    /\ UNCHANGED <<mode, weekend_policy, commits_per_day, files, daily_left,
                   days_iterated, genVars, windowVars, rangeVars, aggVars, dateVars, statVars, branchVars,
                   commitVars, settingsVars>>

PrepDayBegin ==
    /\ mode = "prepare" /\ pc = "while"
    /\ current_date <= end_date
    /\ days_iterated' = days_iterated + 1
    /\ IF commits_per_day < 1
       THEN /\ pc' = "raised"
            /\ UNCHANGED daily_left
       ELSE /\ daily_left' \in DailyCommits(commits_per_day)
            /\ pc' = "for"
    /\ UNCHANGED <<mode, weekend_policy, commits_per_day, files, type_groups,
                   current_date, commits, genVars, windowVars, rangeVars, aggVars, dateVars, statVars, branchVars,
                   commitVars, settingsVars>>

PrepCommit ==
    /\ mode = "prepare" /\ pc = "for"
    /\ daily_left > 0
    /\ AvailableGroups(type_groups) # {}
    /\ \E group_key \in AvailableGroups(type_groups) :
       \E files_count \in FilesCounts(type_groups[group_key]) :
       \E hour \in Hours, minute \in Minutes :
          /\ commits' = Append(commits,
                 [time |-> Replace(current_date, hour, minute),
                  files |-> Take(type_groups[group_key], files_count)])
          /\ type_groups' = [type_groups EXCEPT
                 ![group_key] = Drop(type_groups[group_key], files_count)]
    /\ daily_left' = daily_left - 1
    /\ UNCHANGED <<mode, pc, weekend_policy, commits_per_day, files,
                   current_date, days_iterated, genVars, windowVars, rangeVars, aggVars, dateVars, statVars, branchVars,
                   commitVars, settingsVars>>

PrepDayEnd ==
    /\ mode = "prepare" /\ pc = "for"
    /\ daily_left = 0 \/ AvailableGroups(type_groups) = {}
    /\ current_date' = current_date + MinutesPerDay
    /\ daily_left' = 0
    /\ pc' = "while"
    /\ UNCHANGED <<mode, weekend_policy, commits_per_day, files, type_groups,
                   commits, days_iterated, genVars, windowVars, rangeVars, aggVars, dateVars, statVars, branchVars,
                   commitVars, settingsVars>>

PrepReturn ==
    /\ mode = "prepare" /\ pc = "while"
    /\ current_date > end_date
    /\ pc' = "returned"
    /\ UNCHANGED <<mode, weekend_policy, prepVars, genVars, windowVars, rangeVars, aggVars, dateVars, statVars, branchVars,
                   commitVars, settingsVars>>

\* ------------------------------------------ DateHandler.get_date_range
GetDateRange(s, e) ==
    LET n == TimedeltaDays(e, s) + 1
    IN  IF n <= 0 THEN <<>> ELSE [i \in 1..n |-> s + (i - 1) * MinutesPerDay]

InitRange ==
    /\ mode = "date_range"
    /\ pc = "call"
    /\ weekend_policy \in WeekendPolicies
    /\ \E w \in Windows : start_date = w.start /\ end_date = w.end
    /\ date_list = <<>>
    /\ GenIdle /\ PrepIdle /\ AggIdle /\ DateIdle /\ StatIdle
    /\ BranchIdle /\ CommitIdle /\ SettingsIdle

GetDateRangeCall ==
    /\ mode = "date_range" /\ pc = "call"
    /\ date_list' = GetDateRange(start_date, end_date)
    /\ pc' = "returned"
    /\ UNCHANGED <<mode, weekend_policy, genVars, prepVars, windowVars, aggVars, dateVars, statVars, branchVars,
                   commitVars, settingsVars>>

\* ------------------------------- GitHubScraper / ContributionAnalyzer
Authors == {"x", "y"}
ListOutcomes == {"ok", "client_error", "timeout"}
FetchOutcomes == {"ok", "not_found", "transient", "timeout"}
ExampleCandidates == <<"x", "y", "x", "y", "x">>

\* aiohttp.ClientError covers an HTTP error status (raise_for_status) and a
\* connection failure; asyncio.TimeoutError is not a ClientError.
IsClientError(o) == o \in {"client_error", "not_found", "transient"}

EmptyDetail == [has_author |-> FALSE, name |-> ""]

CommitDetail(author) == [has_author |-> TRUE, name |-> author]

AuthorName(commit) == IF commit.has_author THEN commit.name ELSE "Unknown"

Finished(status) == status \in FetchOutcomes

InFlight == {i \in DOMAIN task : task[i] = "inflight"}

HasAuthor(contribs, author) == \E k \in 1..Len(contribs) : contribs[k].name = author

IncrementResetsCount(contribs, author) ==
    IF HasAuthor(contribs, author)
    THEN [k \in 1..Len(contribs) |->
            IF contribs[k].name = author
            THEN [contribs[k] EXCEPT !.count = 1]
            ELSE contribs[k]]
    ELSE Append(contribs, [name |-> author, count |-> 1])

Increment(contribs, author) ==
    IF HasAuthor(contribs, author)
    THEN [k \in 1..Len(contribs) |->
            IF contribs[k].name = author
            THEN [contribs[k] EXCEPT !.count = @ + 1]
            ELSE contribs[k]]
    ELSE Append(contribs, [name |-> author, count |-> 1])

RECURSIVE CountAuthors(_, _)
CountAuthors(contribs, data) ==
    IF data = <<>> THEN contribs
    ELSE CountAuthors(Increment(contribs, AuthorName(Head(data))), Tail(data))

FetchResult(author, status) ==
    IF status = "ok" THEN CommitDetail(author) ELSE EmptyDetail

EnrichedByCompletion ==
    [k \in 1..Len(completion_order) |->
        FetchResult(remote_commits[completion_order[k]],
                    task[completion_order[k]])]

EnrichedData == [i \in DOMAIN task |-> FetchResult(remote_commits[i], task[i])]

CallPlans ==
    {<<"get_top_contributors">>,
     <<"analyze_contributions", "get_top_contributors">>}

DateArgKinds == {"datetime", "str"}

InsertBeforeEqual(sorted, item) ==
    LET ahead == {k \in 1..Len(sorted) : sorted[k].count > item.count}
        n == Cardinality(ahead)
    IN  Take(sorted, n) \o <<item>> \o Drop(sorted, n)

\* sorted(..., key=count, reverse=True) is stable: an item goes after every
\* item whose count is at least its own.
InsertByCount(sorted, item) ==
    LET ahead == {k \in 1..Len(sorted) : sorted[k].count >= item.count}
        n == Cardinality(ahead)
    IN  Take(sorted, n) \o <<item>> \o Drop(sorted, n)

RECURSIVE SortedByCount(_)
SortedByCount(items) ==
    IF items = <<>> THEN <<>>
    ELSE InsertByCount(SortedByCount(Take(items, Len(items) - 1)),
                       items[Len(items)])

TopContributors(contribs, n) ==
    LET sorted_contributions == SortedByCount(contribs)
        top == Take(sorted_contributions, Min(n, Len(sorted_contributions)))
    IN  [k \in 1..Len(top) |->
            [name |-> top[k].name, contributions |-> top[k].count]]

AggStart ==
    /\ mode = "analyze"
    /\ pc = "call"
    /\ weekend_policy = "include"
    /\ session = "none" /\ list_outcome = "none" /\ task = <<>>
    /\ commit_data = <<>> /\ author_contributions = <<>>
    /\ top_contributors = <<>> /\ attempts = <<>> /\ completion_order = <<>>
    /\ list_requests = 0 /\ detail_requests = 0
    /\ GenIdle /\ PrepIdle /\ WindowIdle /\ RangeIdle /\ DateIdle /\ StatIdle
    /\ BranchIdle /\ CommitIdle /\ SettingsIdle

\* One call of analyze_contributions, under every configuration.
InitAgg ==
    /\ AggStart
    /\ max_concurrent_requests \in 1..MaxLimit
    /\ max_retries \in 1..MaxRetries
    /\ remote_commits \in SeqsUpTo(Authors, MaxCommits) \cup {ExampleCandidates}
    /\ date_args = "datetime"
    /\ top_n = 0
    /\ calls = <<"analyze_contributions">>

\* get_top_contributors, alone or after analyze_contributions on one analyzer.
InitTop ==
    /\ AggStart
    /\ max_concurrent_requests = MaxLimit
    /\ max_retries = MaxRetries
    /\ remote_commits \in SeqsUpTo(Authors, MaxCommits)
    /\ date_args \in DateArgKinds
    /\ top_n \in 0..MaxTopN
    /\ calls \in CallPlans

\* One call of analyze_contributions, recording the order of completion.
InitOrder ==
    /\ AggStart
    /\ max_concurrent_requests = MaxLimit
    /\ max_retries = MaxRetries
    /\ remote_commits \in SeqsUpTo(Authors, MaxCommits)
    /\ date_args = "datetime"
    /\ top_n = 0
    /\ calls = <<"analyze_contributions">>

AnalyzeEnter ==
    /\ mode = "analyze" /\ pc = "call"
    /\ author_contributions' = <<>>
    /\ session' = "open"
    /\ pc' = "list"
    /\ UNCHANGED <<mode, weekend_policy, aggInputs, calls, list_outcome, task,
                   commit_data, top_contributors, attempts, completion_order,
                   list_requests, detail_requests,
                   genVars, prepVars, windowVars, rangeVars, dateVars, statVars, branchVars,
                   commitVars, settingsVars>>

\* A str argument has no isoformat(): the AttributeError is raised while the
\* request parameters are built, and it is not an aiohttp.ClientError.
FetchContributions ==
    /\ mode = "analyze" /\ pc = "list"
    /\ IF date_args = "str"
       THEN /\ session' = "closed"
            /\ pc' = "raised"
            /\ UNCHANGED <<list_outcome, task, attempts, commit_data,
                           list_requests>>
       ELSE \E outcome \in ListOutcomes :
              /\ list_outcome' = outcome
              /\ list_requests' = list_requests + 1
              /\ IF outcome = "ok"
                 THEN /\ task' = [i \in 1..Len(remote_commits) |-> "created"]
                      /\ attempts' = [i \in 1..Len(remote_commits) |-> 0]
                      /\ pc' = "gather"
                      /\ UNCHANGED <<commit_data, session>>
                 ELSE IF IsClientError(outcome)
                 THEN /\ commit_data' = <<>>
                      /\ pc' = "tally"
                      /\ UNCHANGED <<task, attempts, session>>
                 ELSE /\ session' = "closed"
                      /\ pc' = "raised"
                      /\ UNCHANGED <<task, attempts, commit_data>>
    /\ UNCHANGED <<mode, weekend_policy, aggInputs, calls, author_contributions,
                   top_contributors, completion_order, detail_requests,
                   genVars, prepVars, windowVars, rangeVars, dateVars, statVars, branchVars,
                   commitVars, settingsVars>>

FetchStart(i) ==
    /\ mode = "analyze" /\ pc = "gather"
    /\ task[i] = "created"
    /\ \A j \in 1..(i - 1) : task[j] # "created"
    /\ task' = [task EXCEPT ![i] = "inflight"]
    /\ attempts' = [attempts EXCEPT ![i] = @ + 1]
    /\ detail_requests' = detail_requests + 1
    /\ UNCHANGED <<mode, pc, weekend_policy, aggInputs, calls, session,
                   list_outcome, commit_data, author_contributions,
                   top_contributors, completion_order, list_requests,
                   genVars, prepVars, windowVars, rangeVars, dateVars, statVars, branchVars,
                   commitVars, settingsVars>>

FetchResponse(i) ==
    /\ mode = "analyze" /\ pc = "gather"
    /\ task[i] = "inflight"
    /\ \E outcome \in FetchOutcomes :
          /\ task' = [task EXCEPT ![i] = outcome]
          /\ IF outcome = "ok" \/ IsClientError(outcome)
             THEN UNCHANGED <<pc, commit_data>>
             ELSE /\ commit_data' = <<>>
                  /\ pc' = "tally"
    /\ UNCHANGED <<mode, weekend_policy, aggInputs, calls, session,
                   list_outcome, author_contributions, top_contributors,
                   attempts, list_requests, detail_requests,
                   genVars, prepVars, windowVars, rangeVars, dateVars, statVars, branchVars,
                   commitVars, settingsVars>>

FetchFinish(i) == FetchResponse(i) /\ UNCHANGED completion_order

FetchFinishRecorded(i) ==
    FetchResponse(i) /\ completion_order' = Append(completion_order, i)

GatherReturnFirstCompleted ==
    /\ mode = "analyze" /\ pc = "gather"
    /\ \E i \in DOMAIN task : Finished(task[i])
    /\ commit_data' = EnrichedData
    /\ pc' = "tally"
    /\ UNCHANGED <<mode, weekend_policy, aggInputs, calls, session,
                   list_outcome, task, author_contributions, top_contributors,
                   attempts, completion_order, list_requests, detail_requests,
                   genVars, prepVars, windowVars, rangeVars, dateVars, statVars, branchVars,
                   commitVars, settingsVars>>

GatherReturn ==
    /\ mode = "analyze" /\ pc = "gather"
    /\ \A i \in DOMAIN task : Finished(task[i])
    /\ commit_data' = EnrichedData
    /\ pc' = "tally"
    /\ UNCHANGED <<mode, weekend_policy, aggInputs, calls, session,
                   list_outcome, task, author_contributions, top_contributors,
                   attempts, completion_order, list_requests, detail_requests,
                   genVars, prepVars, windowVars, rangeVars, dateVars, statVars, branchVars,
                   commitVars, settingsVars>>

Tally ==
    /\ mode = "analyze" /\ pc = "tally"
    /\ author_contributions' = CountAuthors(author_contributions, commit_data)
    /\ pc' = "exit"
    /\ UNCHANGED <<mode, weekend_policy, aggInputs, calls, session,
                   list_outcome, task, commit_data, top_contributors,
                   attempts, completion_order, list_requests, detail_requests,
                   genVars, prepVars, windowVars, rangeVars, dateVars, statVars, branchVars,
                   commitVars, settingsVars>>

AnalyzeExit ==
    /\ mode = "analyze" /\ pc = "exit"
    /\ session' = "closed"
    /\ pc' = IF Head(calls) = "get_top_contributors" THEN "sort" ELSE "returned"
    /\ UNCHANGED <<mode, weekend_policy, aggInputs, calls, list_outcome, task,
                   commit_data, author_contributions, top_contributors,
                   attempts, completion_order, list_requests, detail_requests,
                   genVars, prepVars, windowVars, rangeVars, dateVars, statVars, branchVars,
                   commitVars, settingsVars>>

GetTopContributors ==
    /\ mode = "analyze" /\ pc = "sort"
    /\ top_contributors' = TopContributors(author_contributions, top_n)
    /\ pc' = "returned"
    /\ UNCHANGED <<mode, weekend_policy, aggInputs, calls, session,
                   list_outcome, task, commit_data, author_contributions,
                   attempts, completion_order, list_requests, detail_requests,
                   genVars, prepVars, windowVars, rangeVars, dateVars, statVars, branchVars,
                   commitVars, settingsVars>>

\* The caller awaits the next entry point on the same analyzer; asyncio.run
\* has ended the first event loop, so nothing of the first call is running.
NextCall ==
    /\ mode = "analyze" /\ pc = "returned"
    /\ Len(calls) > 1
    /\ calls' = Tail(calls)
    /\ pc' = "call"
    /\ session' = "none" /\ list_outcome' = "none"
    /\ task' = <<>> /\ attempts' = <<>> /\ completion_order' = <<>>
    /\ commit_data' = <<>> /\ author_contributions' = <<>>
    /\ UNCHANGED <<mode, weekend_policy, aggInputs, top_contributors,
                   list_requests, detail_requests,
                   genVars, prepVars, windowVars, rangeVars, dateVars, statVars, branchVars,
                   commitVars, settingsVars>>

\* --------------------- DateHandler.validate_date_range / generate_date_windows
\* Instants of these two entry points are counted in seconds.
ClockInstant == (MaxLookDays + 1) * SecondsPerDay

LookLimits == 0..MaxLookDays

ValidateInstants ==
    {ClockInstant + d * SecondsPerDay : d \in (0 - (MaxLookDays + 1))..(MaxLookDays + 1)}

Clamp(s, e, max_past, max_future) ==
    <<IF s < max_past THEN max_past ELSE s,
      IF e > max_future THEN max_future ELSE e>>

InitValidate ==
    /\ mode = "validate"
    /\ pc = "call"
    /\ weekend_policy = "include"
    /\ start_date \in ValidateInstants /\ end_date \in ValidateInstants
    /\ clock = ClockInstant
    /\ max_days_lookback \in LookLimits /\ max_days_ahead \in LookLimits
    /\ validated = <<>>
    /\ window_size = 0 /\ current_start = 0 /\ windows = <<>>
    /\ GenIdle /\ PrepIdle /\ RangeIdle /\ AggIdle /\ StatIdle
    /\ BranchIdle /\ CommitIdle /\ SettingsIdle

ValidateDateRange ==
    /\ mode = "validate" /\ pc = "call"
    /\ IF start_date > end_date
       THEN /\ pc' = "raised"
            /\ UNCHANGED validated
       ELSE /\ validated' = Clamp(start_date, end_date,
                                  clock - max_days_lookback * SecondsPerDay,
                                  clock + max_days_ahead * SecondsPerDay)
            /\ pc' = "returned"
    /\ UNCHANGED <<mode, weekend_policy, clock, max_days_lookback,
                   max_days_ahead, window_size, current_start, windows,
                   genVars, prepVars, windowVars, rangeVars, aggVars, statVars, branchVars,
                   commitVars, settingsVars>>

\* Ranges that end one second before, at, and up to three seconds after a
\* whole number of days, and ranges of a few seconds; a window_size of 0 only
\* with the ranges of a few seconds.
ShortSpans == (0 - 1)..3

WindowSpans ==
    ShortSpans \cup {k * SecondsPerDay + e : k \in 1..MaxSpanDays, e \in (0 - 1)..3}

WindowArgs ==
    {[span |-> sp, window_size |-> ws] : sp \in WindowSpans, ws \in 1..MaxWindowSize}
    \cup {[span |-> sp, window_size |-> 0] : sp \in ShortSpans}

InitWindows ==
    /\ mode = "windows"
    /\ pc = "call"
    /\ weekend_policy = "include"
    /\ start_date \in {0, SecondsPerDay \div 2}
    /\ \E a \in WindowArgs :
          /\ end_date = start_date + a.span
          /\ window_size = a.window_size
    /\ clock = 0 /\ max_days_lookback = 0 /\ max_days_ahead = 0
    /\ validated = <<>>
    /\ current_start = 0 /\ windows = <<>>
    /\ GenIdle /\ PrepIdle /\ RangeIdle /\ AggIdle /\ StatIdle
    /\ BranchIdle /\ CommitIdle /\ SettingsIdle

WindowEndIgnoresSize(start, size, end) == end

WindowEnd(start, size, end) == Min(start + size * SecondsPerDay, end)

NextStartAtWindowEnd(window_end) == window_end

NextStart(window_end) == window_end + 1

WindowsEnter ==
    /\ mode = "windows" /\ pc = "call"
    /\ windows' = <<>>
    /\ current_start' = start_date
    /\ pc' = "loop"
    /\ UNCHANGED <<mode, weekend_policy, clock, max_days_lookback,
                   max_days_ahead, validated, window_size,
                   genVars, prepVars, windowVars, rangeVars, aggVars, statVars, branchVars,
                   commitVars, settingsVars>>

WindowsStep ==
    /\ mode = "windows" /\ pc = "loop"
    /\ current_start < end_date
    /\ LET window_end == WindowEnd(current_start, window_size, end_date)
       IN  /\ windows' = Append(windows, <<current_start, window_end>>)
           /\ current_start' = NextStart(window_end)
    /\ UNCHANGED <<mode, pc, weekend_policy, clock, max_days_lookback,
                   max_days_ahead, validated, window_size,
                   genVars, prepVars, windowVars, rangeVars, aggVars, statVars, branchVars,
                   commitVars, settingsVars>>

WindowsReturn ==
    /\ mode = "windows" /\ pc = "loop"
    /\ ~(current_start < end_date)
    /\ pc' = "returned"
    /\ UNCHANGED <<mode, weekend_policy, dateVars,
                   genVars, prepVars, windowVars, rangeVars, aggVars, statVars, branchVars,
                   commitVars, settingsVars>>

\* ------------------------------- AnalysisService.generate_commit_statistics
\* A commit date is the wall-clock instant of its ISO string, in minutes; the
\* UTC offset the string carries plays no part in .date().
StatInstants ==
    {d * MinutesPerDay + t : d \in 0..(MaxStatDays - 1), t \in {0, MinutesPerDay - 1}}

RepoOutcomes == {"ok", "error"}

CommitDateIsInstant(date) == date

\* datetime.fromisoformat(commit["date"]).date().isoformat()
CommitDate(date) == DayOf(date)

HasDate(per_day_counts, d) ==
    \E k \in 1..Len(per_day_counts) : per_day_counts[k].date = d

CountCommit(per_day_counts, d) ==
    LET with_date == IF HasDate(per_day_counts, d) THEN per_day_counts
                     ELSE Append(per_day_counts, [date |-> d, count |-> 0])
    IN  [k \in 1..Len(with_date) |->
            IF with_date[k].date = d
            THEN [with_date[k] EXCEPT !.count = @ + 1]
            ELSE with_date[k]]

RECURSIVE CalculateCommitsPerDay(_, _)
CalculateCommitsPerDay(per_day_counts, cs) ==
    IF cs = <<>> THEN per_day_counts
    ELSE CalculateCommitsPerDay(CountCommit(per_day_counts, CommitDate(Head(cs))),
                                Tail(cs))

RECURSIVE Gcd(_, _)
Gcd(a, b) == IF b = 0 THEN a ELSE Gcd(b, a % b)

\* a / b as an exact fraction in lowest terms.
Divide(a, b) == [num |-> a \div Gcd(a, b), den |-> b \div Gcd(a, b)]

Zero == [num |-> 0, den |-> 1]

AverageCommitsPerDay(total_commits, unique_days) ==
    IF unique_days > 0 THEN Divide(total_commits, unique_days) ELSE Zero

InitStats ==
    /\ mode = "statistics"
    /\ pc = "call"
    /\ weekend_policy = "include"
    /\ branch_commits \in SeqsUpTo(StatInstants, MaxStatCommits)
    /\ per_day = <<>>
    /\ statistics = <<>>
    /\ GenIdle /\ PrepIdle /\ WindowIdle /\ RangeIdle /\ AggIdle /\ DateIdle
    /\ BranchIdle /\ CommitIdle /\ SettingsIdle

\* commit_repo.list_commits returns the commits of the branch or raises.
StatListCommits ==
    /\ mode = "statistics" /\ pc = "call"
    /\ \E outcome \in RepoOutcomes :
          pc' = IF outcome = "ok" THEN "listed" ELSE "raised"
    /\ UNCHANGED <<mode, weekend_policy, statVars,
                   genVars, prepVars, windowVars, rangeVars, aggVars, dateVars, branchVars,
                   commitVars, settingsVars>>

StatCommitsPerDay ==
    /\ mode = "statistics" /\ pc = "listed"
    /\ per_day' = CalculateCommitsPerDay(<<>>, branch_commits)
    /\ pc' = "counted"
    /\ UNCHANGED <<mode, weekend_policy, branch_commits, statistics,
                   genVars, prepVars, windowVars, rangeVars, aggVars, dateVars, branchVars,
                   commitVars, settingsVars>>

StatReturn ==
    /\ mode = "statistics" /\ pc = "counted"
    /\ LET total_commits == Len(branch_commits)
           unique_days == Len(per_day)
       IN  statistics' =
               [total_commits |-> total_commits,
                average_commits_per_day |->
                    AverageCommitsPerDay(total_commits, unique_days),
                unique_commit_days |-> unique_days]
    /\ pc' = "returned"
    /\ UNCHANGED <<mode, weekend_policy, branch_commits, per_day,
                   genVars, prepVars, windowVars, rangeVars, aggVars, dateVars, branchVars,
                   commitVars, settingsVars>>

\* ------------------------------ GitRepository.create_branch / delete_branch
\* heads maps every branch name to the commit it points to, NoCommit when the
\* branch does not exist; a fresh repository has no branch at all.  Commits
\* form one line of history: commit c is reachable from commit d iff c <= d.
BranchNames == {"develop", "main", "feature"}
NoCommit == 0
HistoryCommits == 1..MaxHistory

Branches(hs) == {b \in BranchNames : hs[b] # NoCommit}

CreateResult(hs, branch_name, base_branch) ==
    IF branch_name \in Branches(hs) THEN "ValueError"
    ELSE IF base_branch \notin Branches(hs) THEN "IndexError"
    ELSE "ok"

\* Head.delete runs git branch -d: git refuses to delete the checked-out
\* branch and a branch whose commit is not reachable from HEAD.
DeleteResult(hs, active, branch_name) ==
    IF branch_name \notin Branches(hs) THEN "ValueError"
    ELSE IF branch_name = active \/ hs[branch_name] > hs[active]
    THEN "GitCommandError"
    ELSE "ok"

InitBranches ==
    /\ mode = "branches"
    /\ pc = "call"
    /\ weekend_policy = "include"
    /\ heads \in [BranchNames -> {NoCommit} \cup HistoryCommits]
    /\ active_branch \in IF Branches(heads) = {} THEN {"main"} ELSE Branches(heads)
    /\ branch_calls = <<>>
    /\ heads_log = <<>>
    /\ GenIdle /\ PrepIdle /\ WindowIdle /\ RangeIdle /\ AggIdle /\ DateIdle
    /\ StatIdle /\ CommitIdle /\ SettingsIdle

CreateBranch(branch_name, base_branch) ==
    /\ mode = "branches" /\ Len(branch_calls) < MaxBranchCalls
    /\ LET result == CreateResult(heads, branch_name, base_branch)
       IN  /\ heads' = IF result = "ok"
                       THEN [heads EXCEPT ![branch_name] = heads[base_branch]]
                       ELSE heads
           /\ branch_calls' = Append(branch_calls,
                  [op |-> "create_branch", branch_name |-> branch_name,
                   base_branch |-> base_branch, result |-> result])
    /\ heads_log' = Append(heads_log, heads)
    /\ UNCHANGED <<mode, pc, weekend_policy, active_branch,
                   genVars, prepVars, windowVars, rangeVars, aggVars, dateVars,
                   statVars, commitVars, settingsVars>>

DeleteBranch(branch_name) ==
    /\ mode = "branches" /\ Len(branch_calls) < MaxBranchCalls
    /\ LET result == DeleteResult(heads, active_branch, branch_name)
       IN  /\ heads' = IF result = "ok"
                       THEN [heads EXCEPT ![branch_name] = NoCommit]
                       ELSE heads
           /\ branch_calls' = Append(branch_calls,
                  [op |-> "delete_branch", branch_name |-> branch_name,
                   base_branch |-> "", result |-> result])
    /\ heads_log' = Append(heads_log, heads)
    /\ UNCHANGED <<mode, pc, weekend_policy, active_branch,
                   genVars, prepVars, windowVars, rangeVars, aggVars, dateVars,
                   statVars, commitVars, settingsVars>>

\* ------------------- CommitRepository.create_commit / amend_last_commit
\* The files argument is a list of paths; None and [] are both the empty list.
\* "gone" is a path that does not exist in the working tree.
RepoFiles == {"a", "b"}
Messages == {"", "first", "second"}
FilesArgs == {<<>>, <<"a">>, <<"a", "b">>, <<"a", "gone">>}

MessageNeverRejected(message) == FALSE

\* not message
MessageRejected(message) == message = ""

\* self.repo.index.add([file]) for each file, up to the first path that does
\* not exist; without files, self.repo.git.add(A=True).
RECURSIVE StageFiles(_, _, _)
StageFiles(staged, changed, fs) ==
    IF fs = <<>> THEN [index |-> staged, failed |-> FALSE]
    ELSE IF Head(fs) \notin RepoFiles THEN [index |-> staged, failed |-> TRUE]
    ELSE StageFiles(staged \cup ({Head(fs)} \cap changed), changed, Tail(fs))

Stage(staged, changed, fs) ==
    IF fs = <<>> THEN [index |-> staged \cup changed, failed |-> FALSE]
    ELSE StageFiles(staged, changed, fs)

RepoState == [index |-> index, worktree |-> worktree, commit_log |-> commit_log]

InitCommit ==
    /\ mode = "commit"
    /\ pc = "call"
    /\ weekend_policy = "include"
    /\ worktree \in SUBSET RepoFiles
    /\ index \in SUBSET worktree
    /\ commit_log \in {<<>>, <<[message |-> "first", files |-> {}]>>}
    /\ commit_calls = <<>>
    /\ repo_before = <<>>
    /\ GenIdle /\ PrepIdle /\ WindowIdle /\ RangeIdle /\ AggIdle /\ DateIdle
    /\ StatIdle /\ BranchIdle /\ SettingsIdle

CreateCommit(message, fs) ==
    /\ mode = "commit" /\ Len(commit_calls) < MaxCommitCalls
    /\ repo_before' = RepoState
    /\ IF MessageRejected(message)
       THEN /\ commit_calls' = Append(commit_calls,
                   [op |-> "create_commit", message |-> message,
                    result |-> "ValueError"])
            /\ UNCHANGED <<index, worktree, commit_log>>
       ELSE LET staging == Stage(index, worktree, fs)
            IN  IF staging.failed
                THEN /\ index' = staging.index
                     /\ commit_calls' = Append(commit_calls,
                            [op |-> "create_commit", message |-> message,
                             result |-> "FileNotFoundError"])
                     /\ UNCHANGED <<worktree, commit_log>>
                ELSE /\ commit_log' = Append(commit_log,
                            [message |-> message, files |-> staging.index])
                     /\ index' = {}
                     /\ worktree' = worktree \ staging.index
                     /\ commit_calls' = Append(commit_calls,
                            [op |-> "create_commit", message |-> message,
                             result |-> "ok"])
    /\ UNCHANGED <<mode, pc, weekend_policy,
                   genVars, prepVars, windowVars, rangeVars, aggVars, dateVars,
                   statVars, branchVars, settingsVars>>

AmendLastCommit(new_message) ==
    /\ mode = "commit" /\ Len(commit_calls) < MaxCommitCalls
    /\ repo_before' = RepoState
    /\ IF MessageRejected(new_message)
       THEN /\ commit_calls' = Append(commit_calls,
                   [op |-> "amend_last_commit", message |-> new_message,
                    result |-> "ValueError"])
            /\ UNCHANGED <<index, worktree, commit_log>>
       ELSE IF commit_log = <<>>
       THEN /\ commit_calls' = Append(commit_calls,
                   [op |-> "amend_last_commit", message |-> new_message,
                    result |-> "GitCommandError"])
            /\ UNCHANGED <<index, worktree, commit_log>>
       ELSE /\ commit_log' = [commit_log EXCEPT ![Len(commit_log)] =
                   [message |-> new_message, files |-> @.files \cup index]]
            /\ index' = {}
            /\ worktree' = worktree \ index
            /\ commit_calls' = Append(commit_calls,
                   [op |-> "amend_last_commit", message |-> new_message,
                    result |-> "ok"])
    /\ UNCHANGED <<mode, pc, weekend_policy,
                   genVars, prepVars, windowVars, rangeVars, aggVars, dateVars,
                   statVars, branchVars, settingsVars>>

\* ------------------------------------------------------------ Settings()
\* The process environment: APP_ENV and, for each environment name, what the
\* file config_<env>.yaml holds (whether the file exists and the set of its
\* top-level sections).
EnvNames == {"development", "production"}
AppEnvValues == {"unset"} \cup EnvNames
Sections == <<"git", "scraper", "date">>
Absent == [exists |-> FALSE, sections |-> {}]
ConfigFiles == {Absent} \cup
    {[exists |-> TRUE, sections |-> ss] : ss \in {{"git", "scraper", "date"}, {"scraper", "date"},
                                {"git", "date"}, {"git", "scraper"}}}

\* os.getenv('APP_ENV', 'development')
GetEnv(value) == IF value = "unset" THEN "development" ELSE value

\* _setup_configurations: the sections are read in order; the first missing
\* one raises KeyError and the attributes set so far stay on the object.
RECURSIVE SetupConfigurations(_, _)
SetupConfigurations(config, k) ==
    IF k > Len(Sections) THEN [attrs |-> {}, raised |-> FALSE]
    ELSE IF Sections[k] \notin config.sections THEN [attrs |-> {}, raised |-> TRUE]
    ELSE LET rest == SetupConfigurations(config, k + 1)
         IN  [attrs |-> {Sections[k]} \cup rest.attrs, raised |-> rest.raised]

\* The body of __init__ after initialized = True.
LoadSettings(value, configs) ==
    LET env == GetEnv(value)
    IN  IF ~configs[env].exists
        THEN [attrs |-> {"env"}, raised |-> TRUE]
        ELSE LET setup == SetupConfigurations(configs[env], 1)
             IN  [attrs |-> {"env", "_config"} \cup setup.attrs,
                  raised |-> setup.raised]

InitSettings ==
    /\ mode = "settings"
    /\ pc = "call"
    /\ weekend_policy = "include"
    /\ app_env \in AppEnvValues
    /\ config_files \in [EnvNames -> ConfigFiles]
    /\ instance = "None"
    /\ initialized = FALSE
    /\ settings_attrs = {}
    /\ load_runs = 0
    /\ settings_calls = <<>>
    /\ GenIdle /\ PrepIdle /\ WindowIdle /\ RangeIdle /\ AggIdle /\ DateIdle
    /\ StatIdle /\ BranchIdle /\ CommitIdle

\* One Settings() call: __new__, then __init__.
SettingsCall ==
    /\ mode = "settings" /\ Len(settings_calls) < MaxSettingsCalls
    /\ instance' = "settings"
    /\ IF initialized
       THEN /\ settings_calls' = Append(settings_calls, "returned")
            /\ UNCHANGED <<initialized, settings_attrs, load_runs>>
       ELSE LET loaded == LoadSettings(app_env, config_files)
            IN  /\ initialized' = TRUE
                /\ load_runs' = load_runs + 1
                /\ settings_attrs' = loaded.attrs
                /\ settings_calls' = Append(settings_calls,
                       IF loaded.raised THEN "raised" ELSE "returned")
    /\ UNCHANGED <<mode, pc, weekend_policy, app_env, config_files,
                   genVars, prepVars, windowVars, rangeVars, aggVars, dateVars,
                   statVars, branchVars, commitVars>>

\* The deployment changes between calls: APP_ENV is set or a configuration
\* file is written.
EnvironmentChange ==
    /\ mode = "settings" /\ Len(settings_calls) < MaxSettingsCalls
    /\ \/ /\ app_env' \in AppEnvValues \ {app_env}
          /\ UNCHANGED config_files
       \/ /\ \E e \in EnvNames, c \in ConfigFiles \ {Absent} :
                /\ config_files[e] = Absent
                /\ config_files' = [config_files EXCEPT ![e] = c]
          /\ UNCHANGED app_env
    /\ UNCHANGED <<mode, pc, weekend_policy, instance, initialized,
                   settings_attrs, load_runs, settings_calls,
                   genVars, prepVars, windowVars, rangeVars, aggVars, dateVars,
                   statVars, branchVars, commitVars>>

\* ------------------------------------------------------- specifications
InitSched == InitGen \/ InitPrep \/ InitRange

NextSched ==
    \/ GenValidate \/ GenDay \/ GenSave
    \/ PrepEnter \/ PrepDayBegin \/ PrepCommit \/ PrepDayEnd \/ PrepReturn
    \/ GetDateRangeCall

SpecSched == InitSched /\ [][NextSched]_vars

InitRerun == InitGenArgs(MaxRerunDays)

NextRerun == GenValidate \/ GenDay \/ GenSave \/ GenCallAgain

SpecRerun == InitRerun /\ [][NextRerun]_vars

NextAgg ==
    \/ AnalyzeEnter \/ FetchContributions
    \/ \E i \in DOMAIN task : FetchStart(i)
    \/ \E i \in DOMAIN task : FetchFinish(i)
    \/ GatherReturn \/ Tally \/ AnalyzeExit

SpecAgg == InitAgg /\ [][NextAgg]_vars

NextTop == NextAgg \/ GetTopContributors \/ NextCall

SpecTop == InitTop /\ [][NextTop]_vars

NextOrder ==
    \/ AnalyzeEnter \/ FetchContributions
    \/ \E i \in DOMAIN task : FetchStart(i)
    \/ \E i \in DOMAIN task : FetchFinishRecorded(i)
    \/ GatherReturn \/ Tally \/ AnalyzeExit

SpecOrder == InitOrder /\ [][NextOrder]_vars

InitDates == InitValidate \/ InitWindows

NextDates == ValidateDateRange \/ WindowsEnter \/ WindowsStep \/ WindowsReturn

SpecDates == InitDates /\ [][NextDates]_vars

\* generate_date_windows is sequential code: its loop keeps running while a
\* step is possible.
NextWindows == WindowsEnter \/ WindowsStep \/ WindowsReturn

SpecWindowsFair ==
    InitWindows /\ [][NextWindows]_vars /\ WF_vars(NextWindows)

NextStats == StatListCommits \/ StatCommitsPerDay \/ StatReturn

SpecStats == InitStats /\ [][NextStats]_vars

NextBranches ==
    \/ \E branch_name \in BranchNames, base_branch \in BranchNames :
          CreateBranch(branch_name, base_branch)
    \/ \E branch_name \in BranchNames : DeleteBranch(branch_name)

SpecBranches == InitBranches /\ [][NextBranches]_vars

NextCommit ==
    \/ \E message \in Messages, fs \in FilesArgs : CreateCommit(message, fs)
    \/ \E new_message \in Messages : AmendLastCommit(new_message)

SpecCommit == InitCommit /\ [][NextCommit]_vars

NextSettings == SettingsCall \/ EnvironmentChange

SpecSettings == InitSettings /\ [][NextSettings]_vars

\* --------------------------------------------------------------- claims
WeekdaysOf(first, n) == {d \in first..(first + n - 1) : ~IsWeekend(d)}

InclusiveDays(s, e) == DayOf(e) - DayOf(s) + 1

TotalOf(contribs) ==
    LET Sum[k \in 0..Len(contribs)] ==
            IF k = 0 THEN 0 ELSE Sum[k - 1] + contribs[k].count
    IN  Sum[Len(contribs)]

CountOf(contribs, author) ==
    LET Sum[k \in 0..Len(contribs)] ==
            IF k = 0 THEN 0
            ELSE Sum[k - 1] + (IF contribs[k].name = author THEN contribs[k].count ELSE 0)
    IN  Sum[Len(contribs)]

CommitsBy(author) == Cardinality({i \in DOMAIN remote_commits : remote_commits[i] = author})

AllFetched ==
    /\ mode = "analyze" /\ pc = "returned" /\ list_outcome = "ok"
    /\ \A i \in DOMAIN task : task[i] = "ok"

OneNotFound ==
    /\ mode = "analyze" /\ pc = "returned" /\ list_outcome = "ok"
    /\ \E i \in DOMAIN task :
          /\ task[i] = "not_found"
          /\ \A j \in DOMAIN task \ {i} : task[j] = "ok"

\* C1: when weekend exclusion is requested (weekend_policy = "exclude"), no
\* commit of generate_contributions and no batch of prepare_commits is dated
\* on a Saturday or a Sunday.
C1_NoWeekendCommits ==
    weekend_policy = "exclude" =>
        /\ \A k \in 1..Len(contributions) : ~IsWeekend(contributions[k].date)
        /\ \A k \in 1..Len(commits) : ~IsWeekend(DayOf(commits[k].time))

\* C2: for every window with start <= end, whatever the times of day, the day
\* loop of prepare_commits runs once per calendar day of the window and
\* get_date_range returns one date per calendar day of the window.
C2_EveryCalendarDayVisited ==
    (pc = "returned" /\ start_date <= end_date) =>
        /\ mode = "prepare" => days_iterated = InclusiveDays(start_date, end_date)
        /\ mode = "date_range" => Len(date_list) = InclusiveDays(start_date, end_date)

\* C3: with frequency = 0 generate_contributions emits no commit, whatever the
\* per-day draws are (0.0 included).
C3_ZeroFrequencyEmitsNothing ==
    (mode = "generate" /\ frequency = 0) =>
        contributions = <<>> /\ commit_log_file \in {NoLog, <<>>}

\* C4: two batches of prepare_commits that lie on the same day have strictly
\* increasing timestamps in emission order (hence never the same hour:minute).
C4_SameDayStrictlyIncreasing ==
    \A j, k \in 1..Len(commits) :
        (j < k /\ DayOf(commits[j].time) = DayOf(commits[k].time))
            => commits[j].time < commits[k].time

\* C5: a second run of generate_contributions over the same window with the
\* same frequency returns the sequence of commits the first run returned.
C5_SecondRunIdentical ==
    (mode = "generate" /\ run_no = 2 /\ pc = "returned") =>
        contributions = first_run

\* C6: with a frequency outside [0, 1], generate_contributions never gets past
\* its validation: no commit is generated and the log file is not written; with
\* commits_per_day < 1, prepare_commits never returns a schedule and emits no
\* batch, whatever the window (an empty one included).
C6_InvalidConstraintsFailFast ==
    /\ (mode = "generate" /\ ~FrequencyValid(frequency)) =>
           /\ pc \in {"call", "raised"}
           /\ contributions = <<>>
           /\ commit_log_file = NoLog
    /\ (mode = "prepare" /\ commits_per_day < 1) =>
           /\ pc # "returned"
           /\ commits = <<>>

\* C7: with frequency = 1 and weekend exclusion requested, the commits returned
\* by generate_contributions are dated on exactly the weekdays of the window,
\* one each; over a 14-day window that is exactly 10 commits.
C7_OneCommitPerWeekday ==
    (mode = "generate" /\ pc = "returned" /\ frequency = FreqScale
        /\ weekend_policy = "exclude") =>
        /\ {contributions[k].date : k \in 1..Len(contributions)}
               = WeekdaysOf(gen_start_date, days)
        /\ Len(contributions) = Cardinality(WeekdaysOf(gen_start_date, days))
        /\ days = ExampleDays => Len(contributions) = 10

\* C8: the number of detail fetches in flight never exceeds the configured
\* limit settings.scraper.max_concurrent_requests.
C8_InFlightWithinLimit ==
    mode = "analyze" => Cardinality(InFlight) <= max_concurrent_requests

\* C9: when the list call and every detail fetch succeed, the returned counts
\* give each author the number of candidate commits by that author, name no
\* one else, and sum to the size of the candidate set.
C9_CountsMatchCandidates ==
    AllFetched =>
        /\ \A a \in Authors : CountOf(author_contributions, a) = CommitsBy(a)
        /\ \A k \in 1..Len(author_contributions) :
              /\ author_contributions[k].name \in Authors
              /\ author_contributions[k].count >= 1
        /\ TotalOf(author_contributions) = Len(remote_commits)

C9_Witness ==
    /\ AllFetched
    /\ remote_commits = <<"x", "y", "x">>
    /\ author_contributions =
           <<[name |-> "x", count |-> 2], [name |-> "y", count |-> 1]>>

\* C10: when exactly one detail fetch fails with not-found and the others
\* succeed, the returned counts cover only the other commits: they sum to the
\* size of the candidate set minus 1 (4 for a candidate set of 5) and hold no
\* entry for the failed commit.
C10_FailedFetchNotCounted ==
    OneNotFound =>
        /\ TotalOf(author_contributions) = Len(remote_commits) - 1
        /\ Len(remote_commits) = 5 => TotalOf(author_contributions) = 4
        /\ \A k \in 1..Len(author_contributions) :
              author_contributions[k].name \in Authors

\* C11: when the list request of fetch_contributions fails, whatever the
\* failure, neither analyze_contributions nor get_top_contributors returns a
\* value to the caller.
C11_ListFailureSurfaced ==
    (mode = "analyze" /\ list_outcome \in ListOutcomes \ {"ok"}) =>
        pc \notin {"sort", "returned"}

FailedFetches == {i \in DOMAIN task : task[i] \in FetchOutcomes \ {"ok"}}

FetchedBy(author) ==
    Cardinality({i \in DOMAIN task : task[i] = "ok" /\ remote_commits[i] = author})

\* C12: when exactly one detail fetch fails, whatever the failure, the counts
\* returned give every author at least the commits of that author whose detail
\* fetch succeeded.
C12_OtherCommitsCounted ==
    (mode = "analyze" /\ pc = "returned" /\ list_outcome = "ok"
        /\ Cardinality(FailedFetches) = 1) =>
        \A a \in Authors : CountOf(author_contributions, a) >= FetchedBy(a)

\* C13: once the gather is over, a commit whose detail fetch failed with a
\* transient error has been requested more than once, and at most
\* 1 + max_retries times.
C13_TransientRetried ==
    (mode = "analyze" /\ pc \in {"tally", "exit", "sort", "returned"}) =>
        \A i \in DOMAIN task :
            task[i] = "transient" =>
                attempts[i] > 1 /\ attempts[i] <= 1 + max_retries

TopReturned ==
    /\ mode = "analyze" /\ pc = "returned"
    /\ Head(calls) = "get_top_contributors"

\* Author under which the statistics record candidate i.
RecordedName(i) == IF task[i] = "ok" THEN remote_commits[i] ELSE "Unknown"

FirstSeen(name) ==
    CHOOSE i \in DOMAIN task :
        /\ RecordedName(i) = name
        /\ \A j \in 1..(i - 1) : RecordedName(j) # name

Outranks(name1, count1, name2, count2) ==
    \/ count1 > count2
    \/ count1 = count2 /\ FirstSeen(name1) < FirstSeen(name2)

\* C14: get_top_contributors returns min(top_n, number of authors) entries,
\* each an author with its count, no author twice; every entry outranks the
\* entries after it and every author left out, where an author outranks
\* another one by a greater count or, at equal counts, by being first seen
\* earlier in the candidate sequence.
C14_TopNStableOrder ==
    TopReturned =>
        /\ Len(top_contributors) <= top_n
        /\ Len(top_contributors) = Min(top_n, Len(author_contributions))
        /\ \A k \in 1..Len(top_contributors) :
              \E j \in 1..Len(author_contributions) :
                  /\ author_contributions[j].name = top_contributors[k].name
                  /\ author_contributions[j].count = top_contributors[k].contributions
        /\ \A j, k \in 1..Len(top_contributors) :
              j < k => Outranks(top_contributors[j].name,
                                top_contributors[j].contributions,
                                top_contributors[k].name,
                                top_contributors[k].contributions)
        /\ \A j \in 1..Len(author_contributions) :
              \A k \in 1..Len(top_contributors) :
                  \/ \E l \in 1..Len(top_contributors) :
                        top_contributors[l].name = author_contributions[j].name
                  \/ Outranks(top_contributors[k].name,
                              top_contributors[k].contributions,
                              author_contributions[j].name,
                              author_contributions[j].count)

C14_Witness ==
    /\ TopReturned
    /\ remote_commits = <<"y", "x">>
    /\ \A i \in DOMAIN task : task[i] = "ok"
    /\ top_n = 1
    /\ top_contributors = <<[name |-> "y", contributions |-> 1]>>

\* C15: get_top_contributors sends no request of its own, so a caller that
\* awaits analyze_contributions and then get_top_contributors on one analyzer
\* has sent at most one list request.
C15_OneListRequest == mode = "analyze" => list_requests <= 1

\* C16: the value returned by analyze_contributions is fixed by the candidate
\* sequence and the outcome of each detail fetch, whatever the order in which
\* the fetches complete: it is empty when a fetch raised out of the gather,
\* and otherwise it lists the recorded authors in order of first appearance in
\* the candidate sequence, each with the number of candidates recorded for it.
C16_ResultIndependentOfOrder ==
    (mode = "analyze" /\ pc = "returned" /\ list_outcome = "ok") =>
        IF \E i \in DOMAIN task : task[i] = "timeout"
        THEN author_contributions = <<>>
        ELSE /\ \A a \in Authors \cup {"Unknown"} :
                    CountOf(author_contributions, a) =
                        Cardinality({i \in DOMAIN task : RecordedName(i) = a})
             /\ \A k \in 1..Len(author_contributions) :
                    author_contributions[k].count >= 1
             /\ \A j, k \in 1..Len(author_contributions) :
                    j < k => FirstSeen(author_contributions[j].name)
                                 < FirstSeen(author_contributions[k].name)

C16_Witness ==
    /\ mode = "analyze" /\ pc = "returned" /\ list_outcome = "ok"
    /\ remote_commits = <<"x", "y", "x">>
    /\ completion_order = <<3, 2, 1>>
    /\ author_contributions =
           <<[name |-> "x", count |-> 2], [name |-> "y", count |-> 1]>>

\* C17: no count is written before the gather is over, the loop that writes
\* the counts starts only when no detail fetch is created or in flight, and
\* the counts it leaves sum to the number of details it was given.
C17_SingleWriter ==
    mode = "analyze" =>
        /\ pc \in {"call", "list", "gather"} => author_contributions = <<>>
        /\ (pc = "tally" /\ commit_data # <<>>) =>
               \A i \in DOMAIN task : Finished(task[i])
        /\ pc \in {"exit", "sort", "returned"} =>
               TotalOf(author_contributions) = Len(commit_data)

C17_Witness ==
    /\ mode = "analyze" /\ pc = "returned"
    /\ Len(commit_data) = 3
    /\ TotalOf(author_contributions) = 3

\* C18: every pair returned by validate_date_range has start <= end.
C18_ValidatedStartBeforeEnd ==
    (mode = "validate" /\ pc = "returned") => validated[1] <= validated[2]

\* Membership of an instant in the windows and in the range changes only at a
\* window bound, at a range bound or one second after one, so a statement
\* about every instant holds if it holds at these instants and one second
\* before the earliest of them.
ProbeInstants ==
    UNION {{windows[k][1] - 1, windows[k][1], windows[k][1] + 1,
            windows[k][2] - 1, windows[k][2], windows[k][2] + 1} :
               k \in 1..Len(windows)}
    \cup {start_date - 1, start_date, start_date + 1,
          end_date - 1, end_date, end_date + 1}

InRange(t) == start_date <= t /\ t < end_date

HalfOpenCover(t) ==
    Cardinality({k \in 1..Len(windows) : windows[k][1] <= t /\ t < windows[k][2]})

ClosedCover(t) ==
    Cardinality({k \in 1..Len(windows) : windows[k][1] <= t /\ t <= windows[k][2]})

WindowsReturned == mode = "windows" /\ pc = "returned"

DaysWithCommits == {DayOf(branch_commits[i]) : i \in DOMAIN branch_commits}

CommitsOn(d) == Cardinality({i \in DOMAIN branch_commits : DayOf(branch_commits[i]) = d})

PerDayTotal ==
    LET Sum[k \in 0..Len(per_day)] ==
            IF k = 0 THEN 0 ELSE Sum[k - 1] + per_day[k].count
    IN  Sum[Len(per_day)]

BatchKey(k) == files[commits[k].files[1]]

EmittedBefore(k) ==
    LET Sum[j \in 0..(k - 1)] ==
            IF j = 0 THEN 0
            ELSE Sum[j - 1] + (IF BatchKey(j) = BatchKey(k)
                               THEN Len(commits[j].files) ELSE 0)
    IN  Sum[k - 1]

\* Size of the chosen group when batch k was cut from it.
GroupSizeAt(k) == Len(GroupOf(files, BatchKey(k))) - EmittedBefore(k)

\* C21: every batch of prepare_commits holds at least 1 item, at most 5, and
\* at most as many as the chosen group held when the batch was cut.
C21_BatchSizeWithinGroup ==
    mode = "prepare" =>
        \A k \in 1..Len(commits) :
            /\ Len(commits[k].files) >= 1
            /\ Len(commits[k].files) <= MaxFilesPerCommit
            /\ Len(commits[k].files) <= GroupSizeAt(k)

C21_Witness ==
    /\ mode = "prepare" /\ pc = "returned"
    /\ files = ExampleFiles
    /\ Len(commits) = 2
    /\ Len(commits[1].files) = MaxFilesPerCommit
    /\ Len(commits[2].files) = 1

TimeOfDay(t) == t - DayOf(t) * MinutesPerDay

ActiveMinutes == (9 * 60)..(18 * 60 + 59)

\* C22: whenever prepare_commits appends a batch, the batch's timestamp lies
\* on the calendar day of the day loop's current_date and its time of day is
\* between 09:00 and 18:59.
C22_TimestampOnIteratedDay ==
    [][(mode = "prepare" /\ Len(commits') > Len(commits)) =>
          /\ DayOf(commits'[Len(commits')].time) = DayOf(current_date)
          /\ TimeOfDay(commits'[Len(commits')].time) \in ActiveMinutes]_vars

C22_Witness ==
    /\ mode = "prepare" /\ pc = "returned"
    /\ start_date = 12 * 60
    /\ Len(commits) = 2
    /\ commits[1].time = 18 * 60 + 59
    /\ commits[2].time = 9 * 60

BatchesOn(d) == Cardinality({k \in 1..Len(commits) : DayOf(commits[k].time) = d})

\* C23: every calendar day that bears a batch of prepare_commits bears at
\* least 1 and at most commits_per_day batches.
C23_BatchesPerDayWithinLimit ==
    mode = "prepare" =>
        \A k \in 1..Len(commits) :
            /\ BatchesOn(DayOf(commits[k].time)) >= 1
            /\ BatchesOn(DayOf(commits[k].time)) <= commits_per_day

C23_Witness ==
    /\ mode = "prepare" /\ pc = "returned"
    /\ commits_per_day = 2
    /\ start_date = 0 /\ end_date = MinutesPerDay
    /\ Len(commits) = 2
    /\ BatchesOn(0) = 2

\* C26: every item of every batch of prepare_commits is a scanned file with
\* the batch's (type, category) key, no file is in two batches or twice in
\* one, and the batches of one group, in emission order, are consecutive
\* slices of that group's files in scan order.
C26_BatchesPartitionGroups ==
    mode = "prepare" =>
        /\ \A k \in 1..Len(commits) :
              \A i \in 1..Len(commits[k].files) :
                  /\ commits[k].files[i] \in 1..Len(files)
                  /\ files[commits[k].files[i]] = BatchKey(k)
        /\ \A k, l \in 1..Len(commits) :
              \A i \in 1..Len(commits[k].files), j \in 1..Len(commits[l].files) :
                  commits[k].files[i] = commits[l].files[j] => (k = l /\ i = j)
        /\ \A k \in 1..Len(commits) :
              /\ EmittedBefore(k) + Len(commits[k].files)
                    <= Len(GroupOf(files, BatchKey(k)))
              /\ commits[k].files =
                    SubSeq(GroupOf(files, BatchKey(k)), EmittedBefore(k) + 1,
                           EmittedBefore(k) + Len(commits[k].files))

C26_Witness ==
    /\ mode = "prepare" /\ pc = "returned"
    /\ files = <<<<"Hook", "Logic">>, <<"Component", "UI">>>>
    /\ Len(commits) = 2
    /\ commits[1].files = <<2>>
    /\ commits[2].files = <<1>>

\* C24: generate_contributions dates its commits on distinct days of the
\* period, so it never holds more commits than the period has days; with
\* frequency = 1 it returns exactly one commit per day of the period.
C24_AtMostOneCommitPerDay ==
    mode = "generate" =>
        /\ Len(contributions) <= days
        /\ \A j, k \in 1..Len(contributions) :
              j < k => contributions[j].date < contributions[k].date
        /\ \A k \in 1..Len(contributions) :
              contributions[k].date \in gen_start_date..(gen_start_date + days - 1)
        /\ (pc = "returned" /\ frequency = FreqScale) =>
              Len(contributions) = days

C24_Witness ==
    /\ mode = "generate" /\ pc = "returned"
    /\ frequency = FreqScale
    /\ days = 3
    /\ Len(contributions) = 3

WindowsCase ==
    mode = "windows" /\ start_date < end_date /\ window_size >= 1

WindowsShape ==
    /\ windows # <<>> => windows[1][1] = start_date
    /\ \A k \in 1..Len(windows) :
          /\ windows[k][1] <= windows[k][2]
          /\ windows[k][2] - windows[k][1] <= window_size * SecondsPerDay
    /\ \A j, k \in 1..Len(windows) :
          j < k => windows[j][1] < windows[k][1]
    /\ pc = "returned" => windows # <<>>

\* C27: for start_date < end_date and window_size >= 1, generate_date_windows
\* returns, and its windows start at start_date, have strictly increasing
\* starts, and each has start <= end and spans at most window_size days.
C27_WindowsTerminate ==
    /\ [](WindowsCase => WindowsShape)
    /\ [](WindowsCase => <>(pc = "returned"))

C27_Witness ==
    /\ WindowsCase /\ pc = "returned"
    /\ start_date = 0 /\ end_date = 3 * SecondsPerDay /\ window_size = 2
    /\ Len(windows) = 2

\* C28: once analyze_contributions has returned or raised, the scraper's
\* session is closed and no detail fetch is in flight.
C28_ClosedAndQuietAfterCall ==
    (mode = "analyze" /\ pc \in {"returned", "raised"}) =>
        /\ session = "closed"
        /\ InFlight = {}


\* heads after call k of branch_calls.
HeadsAfter(k) == IF k = Len(branch_calls) THEN heads ELSE heads_log[k + 1]

\* C25: create_branch(b), called as GitService.create_branch(b) with the
\* default base 'develop', puts b in the branch list; a delete_branch(b) that
\* follows a successful create_branch(b) removes b and leaves every other
\* branch as it was; creating a branch that exists or deleting one that does
\* not exist raises ValueError and leaves the branch set unchanged.
C25_BranchRoundTrip ==
    \A k \in 1..Len(branch_calls) :
        LET c == branch_calls[k]
            before == heads_log[k]
            after == HeadsAfter(k)
        IN  /\ (/\ c.op = "create_branch"
                /\ c.base_branch = "develop"
                /\ c.branch_name \notin Branches(before))
               => c.branch_name \in Branches(after)
            /\ (/\ c.op = "delete_branch"
                /\ k > 1
                /\ branch_calls[k - 1].op = "create_branch"
                /\ branch_calls[k - 1].branch_name = c.branch_name
                /\ branch_calls[k - 1].result = "ok")
               => /\ c.branch_name \notin Branches(after)
                  /\ \A b \in BranchNames \ {c.branch_name} :
                        after[b] = before[b]
            /\ (c.op = "create_branch" /\ c.branch_name \in Branches(before))
               => (c.result = "ValueError" /\ after = before)
            /\ (c.op = "delete_branch" /\ c.branch_name \notin Branches(before))
               => (c.result = "ValueError" /\ after = before)

LastCommitCall == commit_calls[Len(commit_calls)]

\* C29: a create_commit or amend_last_commit call with an empty message
\* raises ValueError and leaves the index, the working tree and the commits
\* as they were, whatever files argument was passed.
C29_EmptyMessageRejected ==
    (commit_calls # <<>> /\ LastCommitCall.message = "")
    => (LastCommitCall.result = "ValueError" /\ RepoState = repo_before)

\* Both operations were called with an empty message on a repository that
\* has a commit to amend and changes to stage.
C29_Witness ==
    /\ Len(commit_calls) = 2
    /\ commit_calls[1].op = "create_commit" /\ commit_calls[1].message = ""
    /\ commit_calls[2].op = "amend_last_commit" /\ commit_calls[2].message = ""
    /\ commit_log # <<>>
    /\ index # {} /\ worktree # index

\* C30: every Settings() call returns the one instance, the loading runs on
\* the first call only, and every call that returns yields an object whose
\* git, scraper and date configurations are set, also after a call whose
\* loading failed.
C30_SingletonLoadedOnce ==
    /\ load_runs <= 1
    /\ (settings_calls # <<>>) => (instance = "settings")
    /\ (\E k \in 1..Len(settings_calls) : settings_calls[k] = "returned")
       => {"git", "scraper", "date"} \subseteq settings_attrs

====
